---- MODULE Spec2Model ----
(***************************************************************************)
(* Observation-space encoding of rosnav-rl: the stacked laser map space    *)
(* (StackedLaserMapSpace): resampling of a 512-beam scan to 720 beams, the  *)
(* fixed-depth laser stack with reset on episode end, and min/mean pooling  *)
(* of the stack into the flat feature map.                                  *)
(*                                                                         *)
(* Numbers.  Ranges are real numbers in the code.  The model keeps them     *)
(* exact as integers: a scan value is held in units of 1/ScanUnit metre     *)
(* (ScanUnit = scan_size_des - 1, the denominator of every interpolation    *)
(* weight), a map value in units of 1/(ScanUnit * group_size) metre (the    *)
(* mean divides by the group size).  Raw scans carry whole metres.  The     *)
(* float32 cast of the pooling buffer and floating-point rounding are not   *)
(* modelled.  Python indices are 0-based, sequences here are 1-based: the   *)
(* element at Python index i is element i + 1.                              *)
(***************************************************************************)
EXTENDS Integers, Sequences, FiniteSets, TLC

(***************************************************************************)
(* Bounds of the model.                                                    *)
(***************************************************************************)
\* scan patterns the sensor can deliver (scan ids 1..NumScans)
NumScans == 2
\* largest configured laser_stack_size
MaxStackSize == 10
\* configured roi_in_m (whole metres)
Roi == 1
\* longest layers and replace_stride_with_dilation lists passed to an extractor
MaxLayers == 4
\* longest list of names a manager is constructed from
MaxNames == 3
\* most beams of a LaserScanSpace and of a raw laser array
MaxBeams == 3

(***************************************************************************)
(* Constants of the program.                                               *)
(***************************************************************************)
\* self.scan_size_des = 720
scan_size_des == 720
\* if (len(laser_scan) == 512)
resample_len == 512
\* for n in range(10)
pool_scans == 10
\* temp[n * 720 : (n + 1) * 720]
pool_scan_len == 720
\* for i in range(80)
pool_groups == 80
\* scan_tmp[i * 9 : (i + 1) * 9]
group_size == 9
\* np.matlib.repmat(scan_avg, 1, 4)
repmat_n == 4
\* .reshape((80, 80))
map_side == 80
\* self._layers[2] is the last entry extractor 1 reads
shallow_layers == 3
\* if len(self._layers) < 4; self._layers[3] is the last entry extractor 2 reads
deep_layers == 4

\* denominator of the interpolation weights: (theta_high - theta_low) is one
\* source increment, the weight is a multiple of 1 / (scan_size_des - 1)
ScanUnit == scan_size_des - 1
\* map values are in units of 1 / (ScanUnit * group_size)
MapUnit == ScanUnit * group_size

(***************************************************************************)
(* Configurations and inputs.                                              *)
(***************************************************************************)
\* native beam counts of the sensor
NativeLens == {360, resample_len, scan_size_des}
StackSizes == {1, MaxStackSize}
FeatureMapSizes == {2, map_side}
ScanIds == 1..NumScans

\* the array (sequence) with the elements of the function f on 1..n
Array(f) == f \o <<>>

\* raw scan of pattern id: runs of id beams alternate between roi and 0
RawScan(id, len, roi) ==
    Array([j \in 1..len |-> IF ((j - 1) \div id) % 2 = 0 THEN roi * ScanUnit ELSE 0])

NoneValue == [type |-> "NoneType", data |-> <<>>]
NdArray(data) == [type |-> "ndarray", data |-> data]

Min2(a, b) == IF a < b THEN a ELSE b
Max2(a, b) == IF a > b THEN a ELSE b

(***************************************************************************)
(* StackedLaserMapSpace: pure parts.                                       *)
(***************************************************************************)
\* np.zeros((n,)) and np.zeros_like(scan)
Zeros(n) == Array([j \in 1..n |-> 0])
ZerosLike(scan) == Zeros(Len(scan))

\* type(laser_scan) is not np.ndarray
IsNdarray(laser) == laser.type = "ndarray"

\* deque([np.zeros_like(laser_scan)] * self._laser_stack_size)
ResetLaserStack(laser_scan, stack_size) ==
    [k \in 1..stack_size |-> ZerosLike(laser_scan)]

\* int(np.floor(a / b)) and int(np.ceil(a / b)) for b > 0
FloorDiv(a, b) == a \div b
CeilDiv(a, b) == -((-a) \div b)

\* Angles are held in units of pi / ((scan_size_des - 1) * (range_size - 1)),
\* in which both angle increments are whole numbers.
\* theta = (i - self.scan_size_des/2) * self.scan_angle_increment_des
Theta(i, range_size) == (2 * i - scan_size_des) * (range_size - 1)
\* np.pi
PiUnits(range_size) == (scan_size_des - 1) * (range_size - 1)
\* angle_increment_orig = 2 * np.pi / (range_size - 1)
AngleIncrementOrig == 2 * (scan_size_des - 1)

\* variant of IdxLow: the nearest index (np.round) instead of np.floor
IdxLow_Round(i, range_size) ==
    Max2(0, FloorDiv(2 * (Theta(i, range_size) + PiUnits(range_size)) + AngleIncrementOrig,
                     2 * AngleIncrementOrig))

\* idx_low = np.max([0, int(np.floor((theta + np.pi) / angle_increment_orig))])
IdxLow(i, range_size) ==
    Max2(0, FloorDiv(Theta(i, range_size) + PiUnits(range_size), AngleIncrementOrig))
\* idx_high = np.min([range_size - 1, int(np.ceil((theta + np.pi) / angle_increment_orig))])
IdxHigh(i, range_size) ==
    Min2(range_size - 1,
         CeilDiv(Theta(i, range_size) + PiUnits(range_size), AngleIncrementOrig))
\* theta_low = (idx_low - range_size/2) * angle_increment_orig, same for theta_high
ThetaOfIdx(idx, range_size) == (2 * idx - range_size) * (scan_size_des - 1)

\* self.scan_tmp[i] = laser_scan[idx_low] + ((theta - theta_low) /
\*     (0.000000000001 + theta_high - theta_low)) * (laser_scan[idx_high] - laser_scan[idx_low])
\* With idx_high = idx_low the difference of the two samples is 0 and the
\* (finite) weight does not matter.  Otherwise the 1e-12 in the denominator
\* changes the weight by less than 1e-10 of itself and is left out.
Interpolate(laser_scan, i) ==
    LET range_size == Len(laser_scan)
        idx_low    == IdxLow(i, range_size)
        idx_high   == IdxHigh(i, range_size)
        theta      == Theta(i, range_size)
        theta_low  == ThetaOfIdx(idx_low, range_size)
        theta_high == ThetaOfIdx(idx_high, range_size)
        low        == laser_scan[idx_low + 1]
        high       == laser_scan[idx_high + 1]
    IN  IF theta_high = theta_low
        THEN low
        ELSE low + ((theta - theta_low) * (high - low)) \div (theta_high - theta_low)

\* variant of Resample: the loop stops one beam early
Resample_Short(laser_scan) ==
    Array([j \in 1..(scan_size_des - 1) |-> Interpolate(laser_scan, j - 1)])

\* for i in range(0, self.scan_size_des): self.scan_tmp[i] = ...
Resample(laser_scan) ==
    Array([j \in 1..scan_size_des |-> Interpolate(laser_scan, j - 1)])

\* variant of NeedsResample: every scan that is not canonical is resampled
NeedsResample_NotCanonical(laser_scan) == Len(laser_scan) # scan_size_des

\* if (len(laser_scan) == 512)
NeedsResample(laser_scan) == Len(laser_scan) = resample_len

\* the value of the local laser_scan when it is pushed
ScanToPush(laser_scan) ==
    IF NeedsResample(laser_scan) THEN Resample(laser_scan) ELSE laser_scan

\* variant of PopAppendLeft: the pop is forgotten
PopAppendLeft_NoPop(queue, laser_scan) == <<laser_scan>> \o queue

\* variant of PopAppendLeft: popleft() and append(), the deque used the other
\* way round
PopAppendLeft_Back(queue, laser_scan) == Tail(queue) \o <<laser_scan>>

\* self._laser_queue.pop(); self._laser_queue.appendleft(laser_scan)
PopAppendLeft(queue, laser_scan) ==
    <<laser_scan>> \o SubSeq(queue, 1, Len(queue) - 1)

(***************************************************************************)
(* _build_laser_map                                                        *)
(***************************************************************************)
\* np.array(laser_queue, dtype=np.float32) raises ValueError when the entries
\* of the queue do not all have the same length
IsRagged(laser_queue) ==
    \E k \in 1..Len(laser_queue) : Len(laser_queue[k]) # Len(laser_queue[1])

\* variant of Flatten: the oldest scan comes first
RECURSIVE Flatten_OldestFirst(_)
Flatten_OldestFirst(laser_queue) ==
    IF laser_queue = <<>> THEN <<>>
    ELSE Flatten_OldestFirst(Tail(laser_queue)) \o Head(laser_queue)

\* np.array(laser_queue, dtype=np.float32).flatten()
RECURSIVE Flatten(_)
Flatten(laser_queue) ==
    IF laser_queue = <<>> THEN <<>>
    ELSE Head(laser_queue) \o Flatten(Tail(laser_queue))

\* temp[a : b], a Python slice: clipped to the length of temp
Slice(temp, a, b) == SubSeq(temp, a + 1, Min2(b, Len(temp)))

\* scan_tmp[i * 9 : (i + 1) * 9] of scan_tmp = temp[n * 720 : (n + 1) * 720]:
\* a slice of a slice, and (i + 1) * 9 never passes the 720 of the outer one
Group(temp, n, i) ==
    Slice(temp, n * pool_scan_len + i * group_size,
                n * pool_scan_len + (i + 1) * group_size)

RECURSIVE MinOf(_, _)
MinOf(s, k) == IF k = 1 THEN s[1] ELSE Min2(s[k], MinOf(s, k - 1))
RECURSIVE SumOf(_, _)
SumOf(s, k) == IF k = 0 THEN 0 ELSE s[k] + SumOf(s, k - 1)

\* np.min(group), in map units; raises ValueError on an empty group
NpMin(group) == group_size * MinOf(group, Len(group))
\* np.mean(group), in map units
NpMean(group) == (group_size * SumOf(group, Len(group))) \div Len(group)

\* np.min raises on the first empty group
PoolingRaises(temp) ==
    \E n \in 0..(pool_scans - 1), i \in 0..(pool_groups - 1) : Group(temp, n, i) = <<>>

\* variant of ScanAvg: the mean in the even rows, the minimum in the odd ones
ScanAvg_Swapped(temp) ==
    Array([k \in 1..(2 * pool_scans * pool_groups) |->
        LET r == (k - 1) \div pool_groups
            i == (k - 1) % pool_groups
            group == Group(temp, r \div 2, i)
        IN  IF r % 2 = 0 THEN NpMean(group) ELSE NpMin(group)])

\* scan_avg = np.zeros((20, 80)) filled row by row, then .reshape(1600):
\* element r * 80 + i is row r, column i; row 2n is the minimum, row 2n + 1
\* the mean of scan n
ScanAvg(temp) ==
    Array([k \in 1..(2 * pool_scans * pool_groups) |->
        LET r == (k - 1) \div pool_groups
            i == (k - 1) % pool_groups
            group == Group(temp, r \div 2, i)
        IN  IF r % 2 = 0 THEN NpMin(group) ELSE NpMean(group)])

\* variant of Repmat: np.repeat, every value 4 times in a row
Repmat_Repeat(scan_avg, times) ==
    Array([k \in 1..(Len(scan_avg) * times) |-> scan_avg[((k - 1) \div times) + 1]])

\* np.matlib.repmat(scan_avg, 1, 4): the 1600 values side by side 4 times
RECURSIVE Repmat(_, _)
Repmat(scan_avg, times) ==
    IF times = 0 THEN <<>> ELSE scan_avg \o Repmat(scan_avg, times - 1)

\* self.get_gym_space().shape
GymShape(fms) == fms * fms

\* the pooling of the flattened queue: np.zeros(self.get_gym_space().shape)
\* when np.min raised, else the tiled map
PoolAndTile(temp, fms) ==
    IF PoolingRaises(temp) THEN Zeros(GymShape(fms))
    ELSE Repmat(ScanAvg(temp), repmat_n)

\* variant of BuildLaserMap: the fallback of a ragged queue has the size of
\* the 80 x 80 map, whatever the declared shape
BuildLaserMap_FixedFallback(laser_queue, fms) ==
    IF IsRagged(laser_queue) THEN Zeros(map_side * map_side)
    ELSE PoolAndTile(Flatten(laser_queue), fms)

\* _build_laser_map followed by the .flatten() of encode_observation: the
\* flat 80 x 80 map, or np.zeros(self.get_gym_space().shape) when np.array
\* or np.min raised
BuildLaserMap(laser_queue, fms) ==
    IF IsRagged(laser_queue) THEN Zeros(GymShape(fms))
    ELSE PoolAndTile(Flatten(laser_queue), fms)

(***************************************************************************)
(* _process_laser_scan                                                     *)
(***************************************************************************)
\* The outcome of a call is the new queue, the returned array, the scan that
\* was pushed and the queue the map was built from (<<>> when nothing was
\* pushed and no map was built).

\* variant of BuildAndReset: the reset on done is forgotten
BuildAndReset_NoReset(queue, laser_scan, done, stack_size, fms) ==
    [queue  |-> queue,
     ret    |-> BuildLaserMap(queue, fms),
     pushed |-> laser_scan,
     built  |-> queue]

\* variant of BuildAndReset: the reset on done comes before the map is built
BuildAndReset_ResetFirst(queue, laser_scan, done, stack_size, fms) ==
    [queue  |-> IF done THEN ResetLaserStack(laser_scan, stack_size) ELSE queue,
     ret    |-> BuildLaserMap(IF done THEN ResetLaserStack(laser_scan, stack_size)
                              ELSE queue, fms),
     pushed |-> laser_scan,
     built  |-> queue]

\* laser_map = self._build_laser_map(self._laser_queue)
\* if done: self._reset_laser_stack(laser_scan)
\* return laser_map
BuildAndReset(queue, laser_scan, done, stack_size, fms) ==
    [queue  |-> IF done THEN ResetLaserStack(laser_scan, stack_size) ELSE queue,
     ret    |-> BuildLaserMap(queue, fms),
     pushed |-> laser_scan,
     built  |-> queue]

\* the push of the (resampled) scan and what follows it
PushScan(queue, laser_scan, done, stack_size, fms) ==
    BuildAndReset(PopAppendLeft(queue, laser_scan), laser_scan, done, stack_size, fms)

\* if len(self._laser_queue) == 0: self._reset_laser_stack(laser_scan)
CreateIfEmpty(laser_queue, laser_scan, stack_size) ==
    IF Len(laser_queue) = 0 THEN ResetLaserStack(laser_scan, stack_size)
    ELSE laser_queue

\* variant of NotArrayReturn: one side of the map instead of the whole map
NotArrayReturn_Side(fms) == Zeros(fms)

\* return np.zeros((self._feature_map_size * self._feature_map_size,))
NotArrayReturn(fms) == Zeros(fms * fms)

\* variant of NotArrayOutcome: a done flag clears the queue before the return
NotArrayOutcome_Clear(laser_queue, done, fms) ==
    [queue  |-> IF done THEN <<>> ELSE laser_queue,
     ret    |-> NotArrayReturn(fms),
     pushed |-> <<>>,
     built  |-> <<>>]

\* if type(laser_scan) is not np.ndarray: return ...
NotArrayOutcome(laser_queue, done, fms) ==
    [queue |-> laser_queue, ret |-> NotArrayReturn(fms), pushed |-> <<>>,
     built |-> <<>>]

\* laser_stack_size >= 1: the pop never finds the queue empty.
ProcessLaserScan(laser_queue, laser, done, stack_size, fms) ==
    IF ~IsNdarray(laser)
    THEN NotArrayOutcome(laser_queue, done, fms)
    ELSE PushScan(CreateIfEmpty(laser_queue, laser.data, stack_size),
                  ScanToPush(laser.data), done, stack_size, fms)

\* kwargs.get(OBS_DICT_KEYS.DONE, False)
KwargsGetDone(kwargs) == IF kwargs.has_done THEN kwargs.done ELSE FALSE

(***************************************************************************)
(* ResNet feature extractors: __init__ and _setup_network.                 *)
(***************************************************************************)
\* the extractor classes of resnet.py
ShallowVariants ==
    {"RESNET_MID_FUSION_EXTRACTOR_1", "RESNET_MID_FUSION_EXTRACTOR_4",
     "DRL_VO_NAV_EXTRACTOR", "_LaserTest", "DRL_VO_ROSNAV_EXTRACTOR"}
DeepVariants ==
    {"RESNET_MID_FUSION_EXTRACTOR_2", "RESNET_MID_FUSION_EXTRACTOR_3",
     "RESNET_MID_FUSION_EXTRACTOR_6"}
TestVariants == {"DRL_VO_NAV_EXTRACTOR_TEST", "_LaserTest_deep", "DRL_VO_DEEP"}
Variants ==
    ShallowVariants \cup DeepVariants \cup {"RESNET_MID_FUSION_EXTRACTOR_5"}
        \cup TestVariants

\* layers: list = [2, 1, 1]
DefaultLayers == <<2, 1, 1>>
\* a layers list of n entries, shaped like the default
LayersOfLen(n) == [k \in 1..n |-> IF k = 1 THEN 2 ELSE 1]
\* replace_stride_with_dilation: None, or a list of booleans
NoDilation == [none |-> TRUE, val |-> <<>>]
Dilation(n) == [none |-> FALSE, val |-> [k \in 1..n |-> FALSE]]

\* if len(self._layers) < 4: self._layers.append(1)
AppendIfShort(layers) ==
    IF Len(layers) < deep_layers THEN Append(layers, 1) ELSE layers

\* if self._replace_stride_with_dilation is None:
\*     self._replace_stride_with_dilation = [False] * len(self._layers)
DefaultDilation(dilation, layers) ==
    IF dilation.none THEN Dilation(Len(layers)) ELSE dilation

\* if len(self._replace_stride_with_dilation) != len(self._layers):
\*     raise ValueError("... or a {len(self._layers)}-element tuple, got ...")
\* and then the layers of the network: self._layers[0] .. self._layers[used - 1]
\* are read, an IndexError when the list is shorter
ValidateAndBuild(layers, dilation, used) ==
    IF Len(dilation.val) # Len(layers)
    THEN [layers |-> layers, dilation |-> dilation,
          outcome |-> "ValueError", expected |-> Len(layers)]
    ELSE IF Len(layers) < used
    THEN [layers |-> layers, dilation |-> dilation,
          outcome |-> "IndexError", expected |-> 0]
    ELSE [layers |-> layers, dilation |-> dilation,
          outcome |-> "built", expected |-> 0]

\* RESNET_MID_FUSION_EXTRACTOR_1._setup_network, inherited by extractor 4,
\* DRL_VO_NAV_EXTRACTOR, _LaserTest and DRL_VO_ROSNAV_EXTRACTOR
SetupNetwork_1(layers, dilation) ==
    ValidateAndBuild(layers, DefaultDilation(dilation, layers), shallow_layers)

\* RESNET_MID_FUSION_EXTRACTOR_2._setup_network, inherited by extractors 3
\* and 6
SetupNetwork_2(layers, dilation) ==
    ValidateAndBuild(AppendIfShort(layers),
                     DefaultDilation(dilation, AppendIfShort(layers)), deep_layers)

\* RESNET_MID_FUSION_EXTRACTOR_5._setup_network: its own append, then the
\* set-up of extractor 2
SetupNetwork_5(layers, dilation) == SetupNetwork_2(AppendIfShort(layers), dilation)

\* DRL_VO_NAV_EXTRACTOR_TEST._setup_network, inherited by _LaserTest_deep and
\* DRL_VO_DEEP
SetupNetwork_TEST(layers, dilation) ==
    ValidateAndBuild(AppendIfShort(layers),
                     DefaultDilation(dilation, AppendIfShort(layers)), deep_layers)

\* the _setup_network the class of the extractor resolves to
SetupNetwork(variant, layers, dilation) ==
    IF variant \in ShallowVariants THEN SetupNetwork_1(layers, dilation)
    ELSE IF variant \in DeepVariants THEN SetupNetwork_2(layers, dilation)
    ELSE IF variant \in TestVariants THEN SetupNetwork_TEST(layers, dilation)
    ELSE SetupNetwork_5(layers, dilation)

\* no extractor constructed yet
NoNet ==
    [variant |-> "none", by_default |-> FALSE, layers_in |-> <<>>,
     dilation_in |-> NoDilation, layers |-> <<>>, dilation |-> NoDilation,
     outcome |-> "none", expected |-> 0]

\* __init__: self._layers = layers (the list itself, not a copy), then the
\* base class runs _setup_network
ConstructExtractor(variant, by_default, layers, dilation) ==
    LET r == SetupNetwork(variant, layers, dilation)
    IN  [variant |-> variant, by_default |-> by_default, layers_in |-> layers,
         dilation_in |-> dilation, layers |-> r.layers, dilation |-> r.dilation,
         outcome |-> r.outcome, expected |-> r.expected]

(***************************************************************************)
(* LaserScanSpace.                                                         *)
(***************************************************************************)
\* shape=(1, self._num_beams) of get_gym_space
LaserGymShape(beams) == <<1, beams>>

\* the shape of a two-dimensional array held as the sequence of its rows
Shape(rows) == <<Len(rows), Len(rows[1])>>

\* observation[LaserCollector.name][np.newaxis, :]: the array as the only row
\* of a two-dimensional array; a value that is no array cannot be indexed
\* with [np.newaxis, :] and raises TypeError
LaserEncode(laser) ==
    IF IsNdarray(laser)
    THEN [kind |-> "array", rows |-> <<laser.data>>, unit |-> 1]
    ELSE [kind |-> "TypeError", rows |-> <<>>, unit |-> 1]

\* the wrapper of BaseObservationSpace.apply_normalization: the array the
\* wrapped encode_observation returned, rescaled into [0, 1] with the
\* declared bounds (low 0, high) when the space normalizes; the values of the
\* result are rows / unit.  What the wrapped function raises passes through.
ApplyNormalization(out, does_normalize, high) ==
    IF out.kind = "array" /\ does_normalize
    THEN [kind |-> "array", rows |-> out.rows, unit |-> high]
    ELSE out

\* LaserScanSpace.encode_observation as the caller sees it
LaserEncodeObservation(laser, does_normalize, high) ==
    ApplyNormalization(LaserEncode(laser), does_normalize, high)

(***************************************************************************)
(* SpaceFactory and ObservationSpaceManager.                               *)
(***************************************************************************)
\* names of observation spaces
SpaceNames == {"LASER", "GOAL", "STACKED_LASER_MAP"}

\* an instance is told from another by who constructed it and its serial
\* number there
NoInst == [owner |-> "none", serial |-> 0]
Inst(owner, serial) == [owner |-> owner, serial |-> serial]

\* variant of FactoryCreate: an unknown name yields a LASER space
FactoryCreate_Default(registered, name, inst) ==
    IF name \in registered
    THEN [kind |-> "space", name |-> name, inst |-> inst]
    ELSE [kind |-> "space", name |-> "LASER", inst |-> inst]

\* SpaceFactory.create(name, **kwargs): the space the registered constructor
\* builds, UnknownSpaceError for a name that was never registered
FactoryCreate(registered, name, inst) ==
    IF name \in registered
    THEN [kind |-> "space", name |-> name, inst |-> inst]
    ELSE [kind |-> "UnknownSpaceError", name |-> name, inst |-> NoInst]

\* the elements of a sequence
Range(seq) == {seq[k] : k \in 1..Len(seq)}

\* variant of FirstSeen: of a repeated name the last occurrence is kept
RECURSIVE FirstSeen_LastSeen(_)
FirstSeen_LastSeen(names) ==
    IF names = <<>> THEN <<>>
    ELSE IF Head(names) \in Range(Tail(names))
    THEN FirstSeen_LastSeen(Tail(names))
    ELSE <<Head(names)>> \o FirstSeen_LastSeen(Tail(names))

\* the names of the list without repetitions, in first-seen order
RECURSIVE FirstSeen(_)
FirstSeen(names) ==
    IF names = <<>> THEN <<>>
    ELSE LET front == FirstSeen(SubSeq(names, 1, Len(names) - 1))
             last  == names[Len(names)]
         IN  IF last \in Range(front) THEN front ELSE Append(front, last)

\* the first name of the list that is not registered
FirstUnknown(registered, names) ==
    names[CHOOSE k \in 1..Len(names) :
              /\ names[k] \notin registered
              /\ \A j \in 1..(k - 1) : names[j] \in registered]

\* ObservationSpaceManager(space_list, ...): one space per name, constructed
\* by the factory in first-seen order; an unknown name fails the construction
ManagerConstruct(registered, names) ==
    IF \E k \in 1..Len(names) : names[k] \notin registered
    THEN [kind |-> "UnknownSpaceError", name |-> FirstUnknown(registered, names),
          space_list |-> <<>>]
    ELSE [kind |-> "manager", name |-> "",
          space_list |-> [k \in 1..Len(FirstSeen(names)) |->
              FactoryCreate(registered, FirstSeen(names)[k], Inst("manager", k))]]

\* manager[name]: the held space of that name, NotFoundError when absent
ManagerLookup(space_list, name) ==
    IF \E k \in 1..Len(space_list) : space_list[k].name = name
    THEN space_list[CHOOSE k \in 1..Len(space_list) : space_list[k].name = name]
    ELSE [kind |-> "NotFoundError", name |-> name, inst |-> NoInst]

NoManager == [exists |-> FALSE, space_list |-> <<>>]

(***************************************************************************)
(* The pedestrian channels of an extractor.                                *)
(***************************************************************************)
\* names of observation spaces as the words between their underscores
StackedLaserMapName == <<"STACKED", "LASER", "MAP">>
PedSpaceNames ==
    {StackedLaserMapName, <<"GOAL">>, <<"PEDESTRIAN", "VEL", "X">>,
     <<"PEDESTRIAN", "VEL", "Y">>, <<"PEDESTRIAN", "TYPE">>}

\* "PEDESTRIAN" in space.name
ContainsPedestrian(name) == \E k \in 1..Len(name) : name[k] = "PEDESTRIAN"

\* variant of GetNumPedestrianFeatureMaps: every managed space is counted
GetNumPedestrianFeatureMaps_All(space_list) == Len(space_list)

\* _get_num_pedestrian_feature_maps: the loop over the manager, which yields
\* its spaces in insertion order
RECURSIVE GetNumPedestrianFeatureMaps(_)
GetNumPedestrianFeatureMaps(space_list) ==
    IF space_list = <<>> THEN 0
    ELSE (IF ContainsPedestrian(Head(space_list).name) THEN 1 ELSE 0)
             + GetNumPedestrianFeatureMaps(Tail(space_list))

\* [observations[space.name] for space in manager.space_list
\*  if "PEDESTRIAN" in space.name]: the channels by the name of their space
RECURSIVE PedestrianChannels(_)
PedestrianChannels(space_list) ==
    IF space_list = <<>> THEN <<>>
    ELSE (IF ContainsPedestrian(Head(space_list).name)
          THEN <<Head(space_list).name>> ELSE <<>>)
             \o PedestrianChannels(Tail(space_list))

\* ped_map of _get_input: None, or the stack of the pedestrian channels
GetInputPedMap(num_pedestrian_feature_maps, space_list) ==
    IF num_pedestrian_feature_maps > 0
    THEN [kind |-> "stacked", channels |-> PedestrianChannels(space_list)]
    ELSE [kind |-> "None", channels |-> <<>>]

NoPedMap == [kind |-> "none", channels |-> <<>>]
NoExtractor ==
    [outcome |-> "none", num_pedestrian_feature_maps |-> 0, conv1_in |-> 0,
     called |-> FALSE, ped_map |-> NoPedMap]

\* __init__ up to the first convolution: the count of line 95, then
\* _get_input_sizes, whose look-up of the stacked laser map fails when the
\* manager holds none, then conv1 of _setup_network
ExtractorInit(space_list) ==
    LET num == GetNumPedestrianFeatureMaps(space_list)
    IN  IF ManagerLookup(space_list, StackedLaserMapName).kind = "NotFoundError"
        THEN [outcome |-> "NotFoundError", num_pedestrian_feature_maps |-> num,
              conv1_in |-> 0, called |-> FALSE, ped_map |-> NoPedMap]
        ELSE [outcome |-> "built", num_pedestrian_feature_maps |-> num,
              conv1_in |-> num + 1, called |-> FALSE, ped_map |-> NoPedMap]
NoResult == [op |-> "none", arg |-> "", out |-> [kind |-> "none", name |-> "", inst |-> NoInst]]
NoEncoding == [kind |-> "none", rows |-> <<>>, unit |-> 1]

(***************************************************************************)
(* The state machine: one StackedLaserMapSpace and its caller.             *)
(***************************************************************************)
VARIABLES
    laser_stack_size,   \* self._laser_stack_size
    feature_map_size,   \* self._feature_map_size
    roi_in_m,           \* self._roi_in_m (whole metres)
    laser_queue,        \* self._laser_queue, most recent scan first
    range_size,         \* native beam count of the sensor feeding the space
    ret,                \* outcome of the last encode_observation call
    call,               \* arguments of the last encode_observation call
    pushed,             \* scan pushed by the last call, <<>> when none was
    built,              \* queue the last call built its map from, <<>> when none
    pushes,             \* array scans pushed since the last reset, at most
                        \* laser_stack_size
    seen_array,         \* some call so far carried an array scan
    scene,              \* scan pattern of the running episode, 0 when none
    default_layers,     \* the list object behind the default of layers
    net,                \* the last extractor construction and its outcome
    registry,           \* names registered with the SpaceFactory
    manager,            \* the ObservationSpaceManager constructed last
    given,              \* the list of names it was constructed from
    res,                \* the last factory or manager call and its result
    num_beams,          \* self._num_beams of the LaserScanSpace
    max_range,          \* self._max_range (whole metres)
    normalize,          \* whether the space normalizes its output
    laser_in,           \* LASER value of the last LaserScanSpace encode call
    enc,                \* its outcome
    ext                 \* the pedestrian channels of the extractor constructed last

vars == <<laser_stack_size, feature_map_size, roi_in_m, laser_queue, range_size,
          ret, call, pushed, built, pushes, seen_array, scene,
          default_layers, net, registry, manager, given, res,
          num_beams, max_range, normalize, laser_in, enc, ext>>

\* the variables of the factory and the manager
factory_vars == <<registry, manager, given, res>>
\* the variables of the LaserScanSpace
beam_vars == <<num_beams, max_range, normalize, laser_in, enc>>

\* the variables of the extractors
net_vars == <<default_layers, net, ext>>
\* the variables of the stacked laser map space
stack_vars == <<laser_stack_size, feature_map_size, roi_in_m, laser_queue,
                range_size, ret, call, pushed, built, pushes, seen_array, scene>>

config == <<laser_stack_size, feature_map_size, roi_in_m, range_size>>

KwargsValues ==
    {[has_done |-> FALSE, done |-> FALSE]} \cup [has_done : {TRUE}, done : BOOLEAN]

\* no extractor has been constructed
NetInit ==
    /\ default_layers = DefaultLayers
    /\ net = NoNet
    /\ ext = NoExtractor

\* nothing registered, no manager
FactoryInit ==
    /\ registry = {}
    /\ manager = NoManager
    /\ given = <<>>
    /\ res = NoResult

\* one LaserScanSpace, never used
LaserSpaceIdle ==
    /\ num_beams = 1
    /\ max_range = 1
    /\ normalize = FALSE
    /\ laser_in = [type |-> "none", data |-> <<>>]
    /\ enc = NoEncoding

\* __init__: an empty deque
Init ==
    /\ NetInit
    /\ FactoryInit
    /\ LaserSpaceIdle
    /\ laser_stack_size \in StackSizes
    /\ feature_map_size \in FeatureMapSizes
    /\ roi_in_m = Roi
    /\ range_size \in NativeLens
    /\ laser_queue = <<>>
    /\ ret = [kind |-> "none", val |-> <<>>]
    /\ call = [kind |-> "none", scan |-> 0, done |-> FALSE, obs_done |-> FALSE]
    /\ pushed = <<>>
    /\ built = <<>>
    /\ pushes = 0
    /\ seen_array = FALSE
    /\ scene = 0

\* encode_observation with a LASER value in the observation; obs_done says
\* whether the observation also carries DONE=True under the DONE key, which
\* the method never reads
EncodeObservation(id, laser, obs_done, kwargs) ==
    \E done \in {KwargsGetDone(kwargs)} :
    \E r \in {ProcessLaserScan(laser_queue, laser, done,
                               laser_stack_size, feature_map_size)} :
        /\ laser_queue' = r.queue
        /\ ret' = [kind |-> "array", val |-> r.ret]
        /\ pushed' = r.pushed
        /\ built' = r.built
        /\ pushes' = IF ~IsNdarray(laser) THEN pushes
                      ELSE IF done THEN 0
                      ELSE Min2(pushes + 1, laser_stack_size)
        /\ call' = [kind |-> laser.type, scan |-> id, done |-> done,
                     obs_done |-> obs_done]
        /\ seen_array' = (seen_array \/ IsNdarray(laser))
        /\ scene' = IF ~IsNdarray(laser) THEN scene ELSE IF done THEN 0 ELSE id
        /\ UNCHANGED config
        /\ UNCHANGED <<net_vars, factory_vars, beam_vars>>

\* encode_observation with no LASER key in the observation:
\* observation[OBS_DICT_KEYS.LASER] raises KeyError
EncodeMissingLaser ==
    /\ ret' = [kind |-> "raised", val |-> <<>>]
    /\ call' = [kind |-> "missing", scan |-> 0, done |-> FALSE, obs_done |-> FALSE]
    /\ pushed' = <<>>
    /\ built' = <<>>
    /\ UNCHANGED <<laser_queue, pushes, seen_array, scene, config>>
    /\ UNCHANGED <<net_vars, factory_vars, beam_vars>>

\* The sensor delivers an array scan of its native length, or no array at
\* all (dropout).  Inside an episode the scanned scene stays the same; a new
\* episode (after a scan with done) may start in another scene.
EncodeArray ==
    \E id \in ScanIds, kwargs \in KwargsValues :
        /\ scene \in {0, id}
        /\ EncodeObservation(id, NdArray(RawScan(id, range_size, roi_in_m)), FALSE, kwargs)

EncodeNone ==
    \E kwargs \in KwargsValues : EncodeObservation(0, NoneValue, FALSE, kwargs)

Next == EncodeArray \/ EncodeNone \/ EncodeMissingLaser

Spec == Init /\ [][Next]_vars

(***************************************************************************)
(* The same space called with observations that carry the DONE key, for a  *)
(* 720-beam sensor and the 80 x 80 map.                                    *)
(***************************************************************************)
InitDone ==
    /\ Init
    /\ feature_map_size = map_side
    /\ range_size = scan_size_des

EncodeArrayWithDone ==
    \E id \in ScanIds, obs_done \in BOOLEAN, kwargs \in KwargsValues :
        /\ scene \in {0, id}
        /\ EncodeObservation(id, NdArray(RawScan(id, range_size, roi_in_m)), obs_done, kwargs)

EncodeNoneWithDone ==
    \E obs_done \in BOOLEAN, kwargs \in KwargsValues :
        EncodeObservation(0, NoneValue, obs_done, kwargs)

NextDone == EncodeArrayWithDone \/ EncodeNoneWithDone

SpecDone == InitDone /\ [][NextDone]_vars

(***************************************************************************)
(* The same space with a stack deeper than the 10 scans the map is pooled  *)
(* from, for a 720-beam sensor and the 80 x 80 map.                        *)
(***************************************************************************)
InitDeep ==
    /\ NetInit
    /\ FactoryInit
    /\ LaserSpaceIdle
    /\ laser_stack_size = MaxStackSize + 1
    /\ feature_map_size = map_side
    /\ roi_in_m = Roi
    /\ range_size = scan_size_des
    /\ laser_queue = <<>>
    /\ ret = [kind |-> "none", val |-> <<>>]
    /\ call = [kind |-> "none", scan |-> 0, done |-> FALSE, obs_done |-> FALSE]
    /\ pushed = <<>>
    /\ built = <<>>
    /\ pushes = 0
    /\ seen_array = FALSE
    /\ scene = 0

SpecDeep == InitDeep /\ [][Next]_vars

(***************************************************************************)
(* The state machine of the extractors: constructions one after another.   *)
(***************************************************************************)
LayersValues == {LayersOfLen(n) : n \in 1..MaxLayers}
DilationValues == {NoDilation} \cup {Dilation(n) : n \in 1..MaxLayers}

\* one space, never used
StackIdle ==
    /\ laser_stack_size = 1
    /\ feature_map_size = map_side
    /\ roi_in_m = Roi
    /\ range_size = scan_size_des
    /\ laser_queue = <<>>
    /\ ret = [kind |-> "none", val |-> <<>>]
    /\ call = [kind |-> "none", scan |-> 0, done |-> FALSE, obs_done |-> FALSE]
    /\ pushed = <<>>
    /\ built = <<>>
    /\ pushes = 0
    /\ seen_array = FALSE
    /\ scene = 0

InitNet == NetInit /\ StackIdle /\ FactoryInit /\ LaserSpaceIdle

\* an extractor constructed without a layers argument: self._layers is the
\* list object of the default, and what set-up appends stays in it
ConstructDefault ==
    \E variant \in Variants, dilation \in DilationValues :
    \E n \in {ConstructExtractor(variant, TRUE, default_layers, dilation)} :
        /\ net' = n
        /\ default_layers' = n.layers
        /\ UNCHANGED ext
        /\ UNCHANGED <<stack_vars, factory_vars, beam_vars>>

\* an extractor constructed with a layers list of the caller
ConstructWithLayers ==
    \E variant \in Variants, layers \in LayersValues, dilation \in DilationValues :
        /\ net' = ConstructExtractor(variant, FALSE, layers, dilation)
        /\ UNCHANGED <<default_layers, ext>>
        /\ UNCHANGED <<stack_vars, factory_vars, beam_vars>>

NextNet == ConstructDefault \/ ConstructWithLayers

SpecNet == InitNet /\ [][NextNet]_vars

(***************************************************************************)
(* The state machine of the factory and one manager.                       *)
(***************************************************************************)
\* lists of at most MaxNames names
NamesLists == UNION {[1..n -> SpaceNames] : n \in 0..MaxNames}

InitSpaces == FactoryInit /\ NetInit /\ StackIdle /\ LaserSpaceIdle

\* @SpaceFactory.register(name) at load time
Register ==
    \E name \in SpaceNames :
        /\ registry' = registry \cup {name}
        /\ UNCHANGED <<manager, given, res>>
        /\ UNCHANGED <<stack_vars, net_vars, beam_vars>>

\* SpaceFactory.create(name, ...) by a caller
Create ==
    \E name \in SpaceNames :
        /\ res' = [op |-> "create", arg |-> name,
                   out |-> FactoryCreate(registry, name, Inst("caller", 1))]
        /\ UNCHANGED <<registry, manager, given>>
        /\ UNCHANGED <<stack_vars, net_vars, beam_vars>>

\* ObservationSpaceManager(names, ...): a new manager, or none when the
\* construction failed
Construct ==
    \E names \in NamesLists :
    \E m \in {ManagerConstruct(registry, names)} :
        /\ given' = names
        /\ manager' = [exists |-> m.kind = "manager", space_list |-> m.space_list]
        /\ res' = [op |-> "construct", arg |-> "",
                   out |-> [kind |-> m.kind, name |-> m.name, inst |-> NoInst]]
        /\ UNCHANGED registry
        /\ UNCHANGED <<stack_vars, net_vars, beam_vars>>

\* manager[name]
Lookup ==
    \E name \in SpaceNames :
        /\ manager.exists
        /\ res' = [op |-> "lookup", arg |-> name,
                   out |-> ManagerLookup(manager.space_list, name)]
        /\ UNCHANGED <<registry, manager, given>>
        /\ UNCHANGED <<stack_vars, net_vars, beam_vars>>

NextSpaces == Register \/ Create \/ Construct \/ Lookup

SpecSpaces == InitSpaces /\ [][NextSpaces]_vars

(***************************************************************************)
(* The state machine of a manager with pedestrian spaces and the extractor *)
(* constructed on it.                                                      *)
(***************************************************************************)
PedNamesLists == UNION {[1..n -> PedSpaceNames] : n \in 0..MaxNames}

\* every space is registered at load time
InitPed ==
    /\ registry = PedSpaceNames
    /\ manager = NoManager
    /\ given = <<>>
    /\ res = NoResult
    /\ NetInit /\ StackIdle /\ LaserSpaceIdle

\* ObservationSpaceManager(names, ...): a new manager, no extractor on it yet
ConstructPedManager ==
    \E names \in PedNamesLists :
    \E m \in {ManagerConstruct(registry, names)} :
        /\ given' = names
        /\ manager' = [exists |-> m.kind = "manager", space_list |-> m.space_list]
        /\ res' = [op |-> "construct", arg |-> "",
                   out |-> [kind |-> m.kind, name |-> m.name, inst |-> NoInst]]
        /\ ext' = NoExtractor
        /\ UNCHANGED <<registry, default_layers, net>>
        /\ UNCHANGED <<stack_vars, beam_vars>>

\* RESNET_MID_FUSION_EXTRACTOR_1(observation_space, manager) with the default
\* layers; the set-up runs only when _get_input_sizes did not raise
ConstructOnManager ==
    \E e \in {ExtractorInit(manager.space_list)} :
    \E n \in {ConstructExtractor("RESNET_MID_FUSION_EXTRACTOR_1", TRUE,
                                  default_layers, NoDilation)} :
        /\ manager.exists
        /\ ext' = e
        /\ net' = IF e.outcome = "built" THEN n ELSE net
        /\ default_layers' = IF e.outcome = "built" THEN n.layers ELSE default_layers
        /\ UNCHANGED <<stack_vars, factory_vars, beam_vars>>

\* _get_input of a forward pass
GetInput ==
    /\ ext.outcome = "built"
    /\ ext' = [ext EXCEPT !.called = TRUE,
                          !.ped_map = GetInputPedMap(ext.num_pedestrian_feature_maps,
                                                     manager.space_list)]
    /\ UNCHANGED <<default_layers, net>>
    /\ UNCHANGED <<stack_vars, factory_vars, beam_vars>>

NextPed == ConstructPedManager \/ ConstructOnManager \/ GetInput

SpecPed == InitPed /\ [][NextPed]_vars

(***************************************************************************)
(* The state machine of one LaserScanSpace and its caller.                 *)
(***************************************************************************)
\* raw laser arrays of at most MaxBeams beams, each beam 0 or max_range
LaserArrays(high) == UNION {[1..n -> {0, high}] : n \in 1..MaxBeams}

InitLaserSpace ==
    /\ num_beams \in 1..MaxBeams
    /\ max_range \in {1, 2}
    /\ normalize \in BOOLEAN
    /\ laser_in = [type |-> "none", data |-> <<>>]
    /\ enc = NoEncoding
    /\ FactoryInit /\ NetInit /\ StackIdle

\* encode_observation of an observation whose LASER value is laser
LaserSpaceEncode(laser) ==
    /\ laser_in' = laser
    /\ enc' = LaserEncodeObservation(laser, normalize, max_range)
    /\ UNCHANGED <<num_beams, max_range, normalize>>
    /\ UNCHANGED <<stack_vars, net_vars, factory_vars>>

EncodeLaserArray ==
    \E data \in LaserArrays(max_range) : LaserSpaceEncode(NdArray(data))

EncodeLaserNone == \E laser \in {NoneValue} : LaserSpaceEncode(laser)

NextLaserSpace == EncodeLaserArray \/ EncodeLaserNone

SpecLaserSpace == InitLaserSpace /\ [][NextLaserSpace]_vars

(***************************************************************************)
(* Properties.                                                             *)
(***************************************************************************)
AllZero(scan) == \A j \in 1..Len(scan) : scan[j] = 0
\* the queue right after a reset: laser_stack_size all-zero scans
IsResetStack(queue) ==
    /\ Len(queue) = laser_stack_size
    /\ \A k \in 1..Len(queue) : AllZero(queue[k])
HasNonZero(array) == \E j \in 1..Len(array) : array[j] # 0
\* the raw scan the last call carried
LastRawScan == RawScan(call.scan, range_size, roi_in_m)

\* C1: once an array scan has been encoded, the laser stack holds exactly
\* laser_stack_size entries after every call, whatever the calls were.
C1_StackFixedSize ==
    seen_array => Len(laser_queue) = laser_stack_size

\* a dropout after the stack was reset by a done flag, stack of full depth
C1_Witness ==
    /\ seen_array
    /\ call.kind = "NoneType"
    /\ laser_stack_size = MaxStackSize
    /\ IsResetStack(laser_queue)

\* the map of a stack that holds the pushed scan in front of all-zero scans
FreshMap(scan) ==
    BuildLaserMap(<<scan>> \o [k \in 1..(laser_stack_size - 1) |-> ZerosLike(scan)],
                  feature_map_size)

C2_Step ==
    /\ (call'.kind = "ndarray" /\ call'.done) => IsResetStack(laser_queue')
    /\ (call.kind = "ndarray" /\ call.done /\ call'.kind = "ndarray")
          => ret'.val = FreshMap(pushed')

\* C2: a call with an array scan and done leaves laser_stack_size all-zero
\* scans in the stack, and the map of the array call that follows it is the map
\* of that call's scan in front of all-zero scans.
C2_ResetOnDone == [][C2_Step]_vars

\* the stack was reset by a call that returned a map with non-zero entries
C2_Witness ==
    /\ call.kind = "ndarray"
    /\ call.done
    /\ HasNonZero(ret.val)
    /\ IsResetStack(laser_queue)

\* C3: after every call with done = True, array scan or not, the next call
\* starts from the all-zero stack (an empty queue is created all-zero).
C3_ResetOnEveryDone ==
    (call.kind \in {"ndarray", "NoneType"} /\ call.done)
        => (laser_queue = <<>> \/ IsResetStack(laser_queue))

\* C4: a call whose laser value is not an array returns normally an all-zero
\* array of the declared shape, feature_map_size * feature_map_size elements.
C4_NotArrayFallback ==
    call.kind = "NoneType"
        => /\ ret.kind = "array"
           /\ Len(ret.val) = GymShape(feature_map_size)
           /\ AllZero(ret.val)

\* a dropout while the stack holds a scan
C4_Witness ==
    /\ call.kind = "NoneType"
    /\ Len(laser_queue) = laser_stack_size
    /\ HasNonZero(laser_queue[1])

\* C5: a call whose laser value is not an array leaves the laser stack as it
\* was, with done = True as with done = False.
C5_NotArrayKeepsStack ==
    [][call'.kind = "NoneType" => laser_queue' = laser_queue]_vars

\* a dropout with done = True while the stack holds a scan
C5_Witness ==
    /\ call.kind = "NoneType"
    /\ call.done
    /\ Len(laser_queue) = laser_stack_size
    /\ HasNonZero(laser_queue[1])

\* C6: every array returned by encode_observation has exactly
\* feature_map_size * feature_map_size elements, the declared shape.
C6_DeclaredShape ==
    ret.kind = "array" => Len(ret.val) = GymShape(feature_map_size)

\* C7: with raw scans of native length 512 or 720 whose values lie in
\* [0, roi_in_m], every element of every returned map lies in [0, roi_in_m].
C7_MapWithinBounds ==
    (ret.kind = "array" /\ range_size \in {resample_len, scan_size_des})
        => \A j \in 1..Len(ret.val) :
              0 <= ret.val[j] /\ ret.val[j] <= roi_in_m * MapUnit

\* C8: for a sensor of native length 512 or 720 every entry of the laser
\* stack has the canonical length 720, from the creation of the stack on.
C8_CanonicalLength ==
    range_size \in {resample_len, scan_size_des}
        => \A k \in 1..Len(laser_queue) : Len(laser_queue[k]) = scan_size_des

\* C9: for a raw scan of native length 512 the scan that is pushed has
\* length 720, and it is the front of the stack when no reset followed.
C9_ResampledLength ==
    (call.kind = "ndarray" /\ range_size = resample_len)
        => /\ Len(pushed) = scan_size_des
           /\ ~call.done => laser_queue[1] = pushed

\* a 512-beam scan was pushed and is the front of the stack
C9_Witness ==
    /\ call.kind = "ndarray"
    /\ ~call.done
    /\ range_size = resample_len
    /\ Len(LastRawScan) = resample_len
    /\ Len(laser_queue[1]) = scan_size_des

\* C10: a raw array scan whose native length is not 512 is pushed as it is:
\* the pushed entry equals the input scan, element for element.
C10_PassThrough ==
    (call.kind = "ndarray" /\ range_size # resample_len)
        => /\ pushed = LastRawScan
           /\ ~call.done => laser_queue[1] = LastRawScan

\* a 720-beam scan with non-zero values is the front of the stack
C10_Witness ==
    /\ call.kind = "ndarray"
    /\ ~call.done
    /\ range_size = scan_size_des
    /\ HasNonZero(LastRawScan)
    /\ laser_queue[1] = LastRawScan

\* the queue a map was built from holds at least 10 scans, all of 720 values
IsPoolable(queue) ==
    /\ Len(queue) >= pool_scans
    /\ \A k \in 1..Len(queue) : Len(queue[k]) = pool_scan_len
\* the queue a map was built from makes the pooling fail: entries of different
\* lengths, or too few values for the last group of the tenth scan (fewer
\* than 10 scans of 720 values, or 10 scans shorter than 720 values)
IsUnpoolable(queue) ==
    \/ \E j, k \in 1..Len(queue) : Len(queue[j]) # Len(queue[k])
    \/ Len(queue) * Len(queue[1]) <= pool_scans * pool_scan_len - group_size

\* C11: whenever the pooling of the stack fails (the stack is ragged, holds
\* fewer than 10 scans or holds scans shorter than 720 values),
\* encode_observation returns normally and the result is the all-zero array
\* of the declared observation shape.
C11_PoolingFailureFallback ==
    (built # <<>> /\ IsUnpoolable(built))
        => /\ ret.kind = "array"
           /\ ret.val = Zeros(GymShape(feature_map_size))

\* a resampled scan of 720 values pushed in front of all-zero scans of the
\* 512 native values: the stack is ragged and the result all zero
C11_Witness ==
    /\ call.kind = "ndarray"
    /\ range_size = resample_len
    /\ Len(built) = MaxStackSize
    /\ Len(built[1]) = scan_size_des
    /\ HasNonZero(built[1])
    /\ Len(built[MaxStackSize]) = resample_len
    /\ ret.val = Zeros(GymShape(feature_map_size))

\* C12: a call whose observation has no LASER entry returns the all-zero
\* array of the declared observation shape.
C12_MissingLaserFallback ==
    call.kind = "missing"
        => /\ ret.kind = "array"
           /\ ret.val = Zeros(GymShape(feature_map_size))

\* entry (2n, i) of the 20 x 80 matrix scan_avg is the minimum and entry
\* (2n + 1, i) the mean of the values 9i .. 9i + 8 of scan n of the queue
\* (map units: 9 times the minimum, and the sum, of the scan values)
IsMinMeanOf(scan_avg, queue) ==
    \A n \in 0..(pool_scans - 1), i \in 0..(pool_groups - 1) :
        LET lo == scan_avg[2 * n * pool_groups + i + 1]
            me == scan_avg[(2 * n + 1) * pool_groups + i + 1]
            v  == [j \in 0..(group_size - 1) |-> queue[n + 1][group_size * i + j + 1]]
        IN  /\ \E j \in 0..(group_size - 1) : lo = group_size * v[j]
            /\ \A j \in 0..(group_size - 1) : lo <= group_size * v[j]
            /\ me = v[0] + v[1] + v[2] + v[3] + v[4] + v[5] + v[6] + v[7] + v[8]

\* C13: for a stack of 10 scans of 720 values, entry (2n, i) of the 20 x 80
\* matrix is the minimum of the values 9i .. 9i + 8 of scan n and entry
\* (2n + 1, i) is their mean.
C13_MinMeanPooling ==
    (built # <<>> /\ IsPoolable(built)) => IsMinMeanOf(ScanAvg(Flatten(built)), built)

\* ten scans of 720 values with obstacles in the oldest one as well: in some
\* group the minimum and the mean differ
C13_Witness ==
    /\ IsPoolable(built)
    /\ HasNonZero(built[pool_scans])
    /\ Len(ret.val) >= 2 * pool_groups
    /\ \E i \in 1..pool_groups : ret.val[i] # ret.val[pool_groups + i]

\* the stack the last call built its map from: the pushed scan in front of
\* all entries of the old stack but the last
C19_Step ==
    (call'.kind = "ndarray" /\ laser_queue # <<>>)
        => \E raw \in {RawScan(call'.scan, range_size, roi_in_m)} :
           \E s \in {ScanToPush(raw)} :
              /\ built' = <<s>> \o SubSeq(laser_queue, 1, Len(laser_queue) - 1)
              /\ ~call'.done => laser_queue' = built'
\* the front pushes entries of the stack are the scan, the rest all zero
IsRecentThenZero(queue, scan, j) ==
    \A k \in 1..Len(queue) :
        IF k <= j THEN queue[k] = scan ELSE AllZero(queue[k])
C19_Stack ==
    seen_array =>
        /\ Len(laser_queue) = laser_stack_size
        /\ pushes > 0 => scene # 0
        /\ IsRecentThenZero(laser_queue,
                IF scene = 0 THEN <<>>
                ELSE ScanToPush(RawScan(scene, range_size, roi_in_m)), pushes)

\* C19: every array call on a non-empty stack drops the last entry and puts
\* the (resampled) scan in front of the others, and after j such calls since
\* the last reset the stack holds the min(j, n) most recent scans, newest
\* first, followed by all-zero scans.
C19_PushOrder == [](C19_Stack) /\ [][C19_Step]_vars

\* half-way: some but not all entries of a deep stack are scans, the newest
\* in front, the last one still all zero
C19_Witness ==
    /\ call.kind = "ndarray"
    /\ laser_stack_size = MaxStackSize
    /\ pushes > 1
    /\ pushes < laser_stack_size
    /\ HasNonZero(laser_queue[1])
    /\ HasNonZero(laser_queue[pushes])
    /\ AllZero(laser_queue[laser_stack_size])

\* element k of the map is element k mod 1600 of the 20 x 80 matrix
IsTiled(map, scan_avg) ==
    /\ Len(map) = map_side * map_side
    /\ \A k \in 0..(map_side * map_side - 1) :
           map[k + 1] = scan_avg[(k % (2 * pool_scans * pool_groups)) + 1]

\* C20: when the pooling succeeds, the returned 80 x 80 map is the flattened
\* 20 x 80 matrix repeated 4 times.
C20_Tiling ==
    (built # <<>> /\ IsPoolable(built))
        => /\ ret.kind = "array"
           /\ IsTiled(ret.val, ScanAvg(Flatten(built)))

\* a pooled map in which two neighbouring elements of the matrix differ
C20_Witness ==
    /\ IsPoolable(built)
    /\ Len(ret.val) = map_side * map_side
    /\ \E k \in 1..(2 * pool_scans * pool_groups - 1) : ret.val[k] # ret.val[k + 1]

\* C16: after every extractor set-up in which replace_stride_with_dilation
\* was given and its length differs from the number of entries of the layers
\* list the extractor was constructed with, the set-up has raised the
\* ValueError naming that number, no network is built and
\* replace_stride_with_dilation is as it was given.
C16_LengthValidation ==
    (/\ net.outcome # "none"
     /\ ~net.dilation_in.none
     /\ Len(net.dilation_in.val) # Len(net.layers_in))
        => /\ net.outcome = "ValueError"
           /\ net.expected = Len(net.layers_in)
           /\ net.dilation = net.dilation_in

\* names held by a manager, in iteration order
HeldNames(space_list) == [k \in 1..Len(space_list) |-> space_list[k].name]
\* the position at which a name is first given in a list
FirstIndex(names, name) ==
    CHOOSE k \in 1..Len(names) :
        names[k] = name /\ \A j \in 1..(k - 1) : names[j] # name

\* a step that is a call (a registration is the only step that changes the
\* registry): res' is the result of the call, made in the unprimed state
C14_Step ==
    registry' = registry =>
        /\ (res'.op = "create" /\ res'.arg \notin registry)
              => res'.out = [kind |-> "UnknownSpaceError", name |-> res'.arg,
                             inst |-> NoInst]
        /\ (res'.op = "lookup" /\ res'.arg \notin Range(HeldNames(manager.space_list)))
              => res'.out = [kind |-> "NotFoundError", name |-> res'.arg,
                             inst |-> NoInst]
        /\ (res'.op = "construct" /\ ~(Range(given') \subseteq registry))
              => /\ res'.out.kind = "UnknownSpaceError"
                 /\ res'.out.name \in Range(given') \ registry
                 /\ ~manager'.exists

\* C14: a create of a name that is not registered, a lookup of a name the
\* manager does not hold and the construction of a manager from a list with
\* an unregistered name all fail with the error that names the unknown name,
\* and yield no space.
C14_UnknownName == [][C14_Step]_vars

\* an unknown name is refused although other names are registered and held
C14_Witness ==
    /\ res.op = "lookup"
    /\ res.out.kind = "NotFoundError"
    /\ manager.exists
    /\ manager.space_list # <<>>
    /\ res.arg \notin registry

\* C15: in every manager no two held spaces share a name, the spaces are
\* iterated in the order in which their names were first given, and a lookup
\* by name returns the instance constructed for that name.
C15_UniqueOrdered ==
    manager.exists =>
        LET held == HeldNames(manager.space_list)
        IN  /\ \A j, k \in 1..Len(held) : held[j] = held[k] => j = k
            /\ Range(held) = Range(given)
            /\ \A j, k \in 1..Len(held) :
                   j < k => FirstIndex(given, held[j]) < FirstIndex(given, held[k])
            /\ \A j, k \in 1..Len(held) :
                   manager.space_list[j].inst = manager.space_list[k].inst => j = k
            /\ (res.op = "lookup" /\ res.arg \in Range(held))
                  => /\ res.out \in Range(manager.space_list)
                     /\ res.out.name = res.arg

\* LASER, GOAL, LASER: the manager holds LASER, GOAL and the lookup of LASER
\* returns the first instance
C15_Witness ==
    /\ given = <<"LASER", "GOAL", "LASER">>
    /\ manager.exists
    /\ HeldNames(manager.space_list) = <<"LASER", "GOAL">>
    /\ res.op = "lookup"
    /\ res.arg = "LASER"
    /\ res.out = manager.space_list[1]

\* C17: for every raw laser array, LaserScanSpace.encode_observation returns
\* an array of the declared shape (1, laser_num_beams).
C17_LaserShape ==
    laser_in.type = "ndarray"
        => /\ enc.kind = "array"
           /\ Shape(enc.rows) = LaserGymShape(num_beams)

\* C18: for a LASER value that is no array, LaserScanSpace.encode_observation
\* returns the all-zero array of the declared shape (1, laser_num_beams).
C18_LaserFallback ==
    laser_in.type = "NoneType"
        => /\ enc.kind = "array"
           /\ enc.rows = <<Zeros(num_beams)>>

\* l = clamp(floor(num / den), 0, top) and h = clamp(ceil(num / den), 0, top),
\* for den > 0, said without a division
IsClampedFloor(l, num, den, top) ==
    \/ l = 0 /\ num < den
    \/ 0 < l /\ l < top /\ l * den <= num /\ num < (l + 1) * den
    \/ l = top /\ top > 0 /\ num >= top * den
IsClampedCeil(h, num, den, top) ==
    \/ h = 0 /\ num <= 0
    \/ 0 < h /\ h < top /\ (h - 1) * den < num /\ num <= h * den
    \/ h = top /\ top > 0 /\ num > (top - 1) * den

\* the two indices read for target index i are the clamped floor and ceiling
\* of x = (theta_i + pi) / delta_src, ordered, at most one apart and inside
\* the scan; in units of pi / (719 * 511), theta_i + pi is (2i - 1) * 511 and
\* delta_src is 2 * 719
IndicesAsSpecified(i, size) ==
    LET num == (2 * i - scan_size_des) * (size - 1) + (scan_size_des - 1) * (size - 1)
        den == 2 * (scan_size_des - 1)
        lo  == IdxLow(i, size)
        hi  == IdxHigh(i, size)
    IN  /\ IsClampedFloor(lo, num, den, size - 1)
        /\ IsClampedCeil(hi, num, den, size - 1)
        /\ 0 <= lo /\ lo <= hi /\ hi <= size - 1
        /\ hi - lo <= 1

\* C21: when a scan of native length 512 has been resampled, for every target
\* index i in 0..719 the two indices read from the raw scan are
\* clamp(floor(x), 0, 511) and clamp(ceil(x), 0, 511), so
\* 0 <= idx_low <= idx_high <= 511, idx_high - idx_low <= 1 and every read is
\* inside the scan.
C21_IndexComputation ==
    (call.kind = "ndarray" /\ range_size = resample_len)
        => \A i \in 0..(scan_size_des - 1) : IndicesAsSpecified(i, range_size)

\* a 512-beam scan has been resampled; the first target index is clamped to
\* index 0 on both sides and the last one reads the last two beams
C21_Witness ==
    /\ call.kind = "ndarray"
    /\ range_size = resample_len
    /\ Len(pushed) = scan_size_des
    /\ IdxLow(0, range_size) = 0
    /\ IdxHigh(0, range_size) = 0
    /\ IdxLow(scan_size_des - 1, range_size) = resample_len - 2
    /\ IdxHigh(scan_size_des - 1, range_size) = resample_len - 1

\* v lies in the closed interval between a and b
IsBetween(v, a, b) == (a <= v /\ v <= b) \/ (b <= v /\ v <= a)

\* C22: when a scan of native length 512 has been resampled, every entry i of
\* the resampled scan lies in the closed interval between the two native
\* samples at idx_low and idx_high.
C22_InterpolationBetween ==
    (call.kind = "ndarray" /\ range_size = resample_len)
        => \A i \in 0..(scan_size_des - 1) :
               IsBetween(pushed[i + 1],
                         LastRawScan[IdxLow(i, range_size) + 1],
                         LastRawScan[IdxHigh(i, range_size) + 1])

\* the map of an array call with done is the map of the pushed scan in front
\* of the old stack without its last entry (rows 2n and 2n + 1 pooled from
\* entry n of that stack when it can be pooled), and the stack is reset after
C24_Step ==
    (call'.kind = "ndarray" /\ call'.done /\ laser_queue # <<>>)
        => \E q \in {<<pushed'>> \o SubSeq(laser_queue, 1, Len(laser_queue) - 1)} :
              /\ ret'.val = BuildLaserMap(q, feature_map_size)
              /\ IsPoolable(q) => IsMinMeanOf(ret'.val, q)
              /\ IsResetStack(laser_queue')

\* C24: the map returned by an encode call with done=True and an array scan
\* is built from the stack as it is before the reset: that step's scan in
\* front of the preceding scans of the ending episode; the reset shows only
\* in the stack the call leaves behind.
C24_MapBeforeReset == [][C24_Step]_vars

\* the episode ends on a full stack: the returned map has the preceding scan
\* in row 3 although the stack left behind is all zero
C24_Witness ==
    /\ call.kind = "ndarray"
    /\ call.done
    /\ IsResetStack(laser_queue)
    /\ IsPoolable(built)
    /\ HasNonZero(built[2])
    /\ Len(ret.val) = map_side * map_side
    /\ \E i \in 1..pool_groups : ret.val[3 * pool_groups + i] # 0

\* rows 2n and 2n + 1 of the map are the per-group minimum and mean of the
\* 720-value scan (map units: 9 times the minimum, and the sum)
RowsPooledFrom(map, n, scan) ==
    /\ Len(map) >= 2 * (n + 1) * pool_groups
    /\ Len(scan) = pool_scan_len
    /\ \A i \in 0..(pool_groups - 1) :
        LET lo == map[2 * n * pool_groups + i + 1]
            me == map[(2 * n + 1) * pool_groups + i + 1]
            v  == [j \in 0..(group_size - 1) |-> scan[group_size * i + j + 1]]
        IN  /\ \E j \in 0..(group_size - 1) : lo = group_size * v[j]
            /\ \A j \in 0..(group_size - 1) : lo <= group_size * v[j]
            /\ me = v[0] + v[1] + v[2] + v[3] + v[4] + v[5] + v[6] + v[7] + v[8]

\* C25: with a 512-beam sensor and laser_stack_size = 10, every encode call
\* with an array scan returns a map whose rows 0 and 1 are pooled from the
\* resampled current scan.
C25_PooledFromFirstCall ==
    (range_size = resample_len /\ laser_stack_size = pool_scans /\ call.kind = "ndarray")
        => RowsPooledFrom(ret.val, 0, pushed)

\* C26: with laser_stack_size below 10 and 720-beam scans, rows 2n and 2n + 1
\* of the returned map, for every n < laser_stack_size, are pooled from the
\* n-th most recent scan.
C26_ShallowStackPooled ==
    (laser_stack_size < pool_scans /\ range_size = scan_size_des /\ call.kind = "ndarray")
        => \A n \in 0..(laser_stack_size - 1) : RowsPooledFrom(ret.val, n, built[n + 1])

\* C28: after an encode call whose observation carries DONE=True under the
\* DONE key, with an array scan, the stack is the all-zero reset stack,
\* whether or not a DONE keyword argument was passed.
C28_ObservationDoneResets ==
    (call.kind = "ndarray" /\ call.obs_done) => IsResetStack(laser_queue)

\* C29: constructing an extractor leaves the layer configuration of others
\* alone: an extractor constructed without a layers argument starts its
\* set-up with [2, 1, 1], and a layers list passed by the caller is the same
\* after the construction as before.
C29_LayersNotShared ==
    net.outcome # "none"
        => /\ net.by_default => net.layers_in = DefaultLayers
           /\ ~net.by_default => net.layers = net.layers_in

\* the variants the length rule is stated for
NamedVariants ==
    {"RESNET_MID_FUSION_EXTRACTOR_1", "RESNET_MID_FUSION_EXTRACTOR_2",
     "RESNET_MID_FUSION_EXTRACTOR_3", "RESNET_MID_FUSION_EXTRACTOR_4",
     "RESNET_MID_FUSION_EXTRACTOR_5", "RESNET_MID_FUSION_EXTRACTOR_6",
     "DRL_VO_NAV_EXTRACTOR", "DRL_VO_NAV_EXTRACTOR_TEST"}

\* C30: for each of these variants, when the caller passes a layers list of
\* at least 3 entries and a replace_stride_with_dilation list of the same
\* length, the set-up does not raise the length ValueError.
C30_EqualLengthsAccepted ==
    (/\ net.variant \in NamedVariants
     /\ ~net.by_default
     /\ ~net.dilation_in.none
     /\ Len(net.layers_in) >= shallow_layers
     /\ Len(net.dilation_in.val) = Len(net.layers_in))
        => net.outcome # "ValueError"

\* scans an older entry of a stack may hold: a raw scan or the zero scan
OlderScans == {RawScan(id, scan_size_des, roi_in_m) : id \in ScanIds} \cup {Zeros(scan_size_des)}

\* C27: with laser_stack_size above 10 and 720-beam scans the returned map
\* depends only on the 10 most recent scans: every stack that agrees with the
\* one the map was built from on its first 10 entries yields the same map.
C27_TenMostRecent ==
    (call.kind = "ndarray" /\ laser_stack_size > pool_scans /\ range_size = scan_size_des)
        => \A older \in OlderScans :
              BuildLaserMap([k \in 1..Len(built) |->
                                 IF k <= pool_scans THEN built[k] ELSE older],
                            feature_map_size) = ret.val

\* a map built from a stack whose eleventh entry is a non-zero scan
C27_Witness ==
    /\ call.kind = "ndarray"
    /\ laser_stack_size > pool_scans
    /\ Len(built) > pool_scans
    /\ HasNonZero(built[pool_scans + 1])
    /\ \E j \in 1..Len(ret.val) : ret.val[j] # 0

\* the pedestrian names among the names a manager was constructed from
PedestrianNames(names) == {name \in Range(names) : ContainsPedestrian(name)}

====
